---- MODULE Spec2Model ----
(***************************************************************************)
(* Narrow phase of the collision pipeline (src/collision/narrow_phase.rs): *)
(* the per-step lifecycle of the Collisions store (reset, collect, post-   *)
(* process, prune), the per-pair contact computation with warm starting,   *)
(* constraint generation, and the sequential and parallel pair loops.      *)
(*                                                                         *)
(* Scalars are integers.  Velocities and positions are one-dimensional.    *)
(* The tangent impulse follows the same path as the normal impulse and is  *)
(* not carried separately.                                                 *)
(***************************************************************************)
EXTENDS Integers, Sequences, FiniteSets, Bags, TLC

(***************************************************************************)
(* Bounds of the model.                                                    *)
(***************************************************************************)
\* Longest candidate pair list the broad phase hands over.
MaxPairs == 2
\* Largest impulse the solver stores back into a contact point.
MaxImpulse == 1

(***************************************************************************)
(* Entities and components.                                                *)
(***************************************************************************)
\* Entities 1 and 2 carry colliders; entity 3 is a rigid body without a
\* collider of its own, to which collider 2 may be attached as a child.
Entities == {1, 2, 3}
ColliderEntities == {1, 2}

\* Option::None for an entity reference.
NoEntity == 0
\* Option::None for a speculative margin override.
NoMargin == -1
\* Scalar::MAX, the unbounded speculative margin.
ScalarMax == 1000
\* NarrowPhaseConfig::default().contact_tolerance, in units in which the
\* default 0.005 is 1.
DefaultContactTolerance == 1
\* time.delta_seconds_adjusted()
DeltaSecs == 1

VARIABLES
    world,          \* [Entities -> components of the entity]
    geom,           \* what the geometry backend sees for the pair of colliders
    pairs,          \* BroadCollisionPairs
    warm_start,     \* solver_config.warm_start_coefficient > 0.0
    parallel,       \* cfg(feature = "parallel")
    config,         \* NarrowPhaseConfig
    length_unit,    \* PhysicsLengthUnit
    config_is_changed,          \* change tick of NarrowPhaseConfig
    default_speculative_margin, \* Local<Scalar>, scaled by the length unit
    contact_tolerance,          \* Local<Scalar>, scaled by the length unit
    collisions,     \* Collisions: [set of (entity, entity) keys -> Contacts]
    constraints,    \* ContactConstraints
    commands,       \* deferred commands queued through ParallelCommands
    workers,        \* tasks of par_splat_map, with their local results
    idx,            \* position of the sequential loop in pairs
    pc,             \* position of the schedule within the step
    collisions0,    \* Collisions as the running pass found it
    call,           \* arguments of a function called on its own
    ret,            \* what that call returned
    ran             \* systems of the schedule that have run in the step, in
                    \* order, where the schedule is modelled system by system

vars == <<world, geom, pairs, warm_start, parallel, config, length_unit,
          config_is_changed, default_speculative_margin, contact_tolerance,
          collisions, constraints, commands, workers, idx, pc, collisions0,
          call, ret, ran>>

envVars == <<world, geom, pairs, warm_start, parallel, config, length_unit>>
localVars == <<config_is_changed, default_speculative_margin, contact_tolerance>>
callVars == <<call, ret>>
scheduleVars == <<ran>>

(***************************************************************************)
(* Small helpers.                                                          *)
(***************************************************************************)
Abs(x) == IF x < 0 THEN -x ELSE x
Max(a, b) == IF a >= b THEN a ELSE b
Min(a, b) == IF a <= b THEN a ELSE b
MinOf(S) == CHOOSE x \in S : \A y \in S : x <= y

RECURSIVE SumImpulses(_)
SumImpulses(points) ==
    IF points = <<>> THEN 0
    ELSE Head(points).normal_impulse + SumImpulses(Tail(points))

RECURSIVE SeqToBag(_)
SeqToBag(s) ==
    IF s = <<>> THEN EmptyBag ELSE SetToBag({Head(s)}) (+) SeqToBag(Tail(s))

\* f32 multiplication by the length unit: MAX stays unbounded.
Scaled(unit, x) == IF x >= ScalarMax THEN ScalarMax ELSE Min(unit * x, ScalarMax)

(***************************************************************************)
(* Queries.                                                                *)
(***************************************************************************)
\* A collider query that still resolves the components of despawned entities.
collider_query_ignores_despawn(w, e1, e2) ==
    w[e1].collider /\ w[e2].collider

\* self.collider_query.get_many([entity1, entity2]) succeeds
collider_query_get_many(w, e1, e2) ==
    /\ w[e1].alive /\ w[e1].collider
    /\ w[e2].alive /\ w[e2].collider

\* collider.parent.and_then(|p| self.body_query.get(p.get()).ok())
body_bundle(w, e) ==
    LET p == w[e].parent
    IN  IF p # NoEntity /\ w[p].alive /\ w[p].rb # "none" THEN p ELSE NoEntity

\* ColliderQuery::is_rb: the collider has an attached rigid body
is_rb(w, e) == body_bundle(w, e) # NoEntity

is_static(w, b) == w[b].rb = "static"
is_dynamic(w, b) == w[b].rb = "dynamic"

\* Vector::clamp_length_max
clamp_length_max(v, m) == IF Abs(v) > m THEN (IF v < 0 THEN -m ELSE m) ELSE v

(***************************************************************************)
(* Speculative margin (handle_pair, first half).                           *)
(***************************************************************************)
\* A max_contact_distance without the floor of the contact tolerance.
max_contact_distance_without_tolerance(w, e1, e2, dsm, tol, delta_secs) ==
    LET b1 == body_bundle(w, e1)
        b2 == body_bundle(w, e2)
        lin_vel1 == IF b1 # NoEntity THEN w[b1].lin_vel ELSE 0
        lin_vel2 == IF b2 # NoEntity THEN w[b2].lin_vel ELSE 0
        rb_margin1 == IF b1 # NoEntity THEN w[b1].speculative_margin ELSE NoMargin
        rb_margin2 == IF b2 # NoEntity THEN w[b2].speculative_margin ELSE NoMargin
        sm1 == IF w[e1].speculative_margin # NoMargin
               THEN w[e1].speculative_margin ELSE rb_margin1
        sm2 == IF w[e2].speculative_margin # NoMargin
               THEN w[e2].speculative_margin ELSE rb_margin2
        m1 == IF sm1 = NoMargin THEN dsm ELSE sm1
        m2 == IF sm2 = NoMargin THEN dsm ELSE sm2
        v1 == IF m1 < ScalarMax
              THEN clamp_length_max(lin_vel1, m1 \div delta_secs) ELSE lin_vel1
        v2 == IF m2 < ScalarMax
              THEN clamp_length_max(lin_vel2, m2 \div delta_secs) ELSE lin_vel2
        effective_speculative_margin == delta_secs * Abs(v1 - v2)
    IN  effective_speculative_margin

\* A max_contact_distance from the difference of the two speeds instead of
\* the speed of the difference.
max_contact_distance_of_speed_difference(w, e1, e2, dsm, tol, delta_secs) ==
    LET b1 == body_bundle(w, e1)
        b2 == body_bundle(w, e2)
        lin_vel1 == IF b1 # NoEntity THEN w[b1].lin_vel ELSE 0
        lin_vel2 == IF b2 # NoEntity THEN w[b2].lin_vel ELSE 0
        rb_margin1 == IF b1 # NoEntity THEN w[b1].speculative_margin ELSE NoMargin
        rb_margin2 == IF b2 # NoEntity THEN w[b2].speculative_margin ELSE NoMargin
        sm1 == IF w[e1].speculative_margin # NoMargin
               THEN w[e1].speculative_margin ELSE rb_margin1
        sm2 == IF w[e2].speculative_margin # NoMargin
               THEN w[e2].speculative_margin ELSE rb_margin2
        m1 == IF sm1 = NoMargin THEN dsm ELSE sm1
        m2 == IF sm2 = NoMargin THEN dsm ELSE sm2
        v1 == IF m1 < ScalarMax
              THEN clamp_length_max(lin_vel1, m1 \div delta_secs) ELSE lin_vel1
        v2 == IF m2 < ScalarMax
              THEN clamp_length_max(lin_vel2, m2 \div delta_secs) ELSE lin_vel2
        effective_speculative_margin == delta_secs * Abs(Abs(v1) - Abs(v2))
    IN  Max(effective_speculative_margin, tol)

\* The maximum distance at which contacts are detected: the first half of
\* handle_pair.  The division is exact for the margins of the model.
max_contact_distance(w, e1, e2, dsm, tol, delta_secs) ==
    LET b1 == body_bundle(w, e1)
        b2 == body_bundle(w, e2)
        lin_vel1 == IF b1 # NoEntity THEN w[b1].lin_vel ELSE 0
        lin_vel2 == IF b2 # NoEntity THEN w[b2].lin_vel ELSE 0
        rb_margin1 == IF b1 # NoEntity THEN w[b1].speculative_margin ELSE NoMargin
        rb_margin2 == IF b2 # NoEntity THEN w[b2].speculative_margin ELSE NoMargin
        sm1 == IF w[e1].speculative_margin # NoMargin
               THEN w[e1].speculative_margin ELSE rb_margin1
        sm2 == IF w[e2].speculative_margin # NoMargin
               THEN w[e2].speculative_margin ELSE rb_margin2
        m1 == IF sm1 = NoMargin THEN dsm ELSE sm1
        m2 == IF sm2 = NoMargin THEN dsm ELSE sm2
        v1 == IF m1 < ScalarMax
              THEN clamp_length_max(lin_vel1, m1 \div delta_secs) ELSE lin_vel1
        v2 == IF m2 < ScalarMax
              THEN clamp_length_max(lin_vel2, m2 \div delta_secs) ELSE lin_vel2
        effective_speculative_margin == delta_secs * Abs(v1 - v2)
    IN  Max(effective_speculative_margin, tol)

(***************************************************************************)
(* Geometry backend and contact matching.                                  *)
(***************************************************************************)
Point(f) == [fid |-> f, normal_impulse |-> 0]

\* AnyCollider::contact_manifolds: the manifolds of the two shapes when their
\* separation is within max_distance, none otherwise.
contact_manifolds(g, max_distance) ==
    IF g.sep <= max_distance THEN g.shape ELSE <<>>

\* ContactManifold::match_contacts: a point that matches a previous point
\* takes over that point's impulse; the first match in order wins.
match_contacts(manifold, previous) ==
    [i \in 1..Len(manifold) |->
        LET hits == {j \in 1..Len(previous) : previous[j].fid = manifold[i].fid}
        IN  IF hits = {} THEN manifold[i]
            ELSE [manifold[i] EXCEPT
                    !.normal_impulse = previous[MinOf(hits)].normal_impulse]]

\* The inner loop of compute_contacts for one new manifold: match against
\* each previous manifold in turn, and after each add the manifold's
\* impulses to the total.
RECURSIVE MatchPrevious(_, _, _)
MatchPrevious(acc, prev_manifolds, j) ==
    IF j > Len(prev_manifolds) THEN acc
    ELSE LET m == match_contacts(acc.manifold, prev_manifolds[j])
         IN  MatchPrevious([manifold |-> m,
                            total |-> acc.total + SumImpulses(m)],
                           prev_manifolds, j + 1)

\* The outer loop of compute_contacts over the new manifolds.
RECURSIVE MatchManifolds(_, _, _, _)
MatchManifolds(manifolds, prev_manifolds, i, total) ==
    IF i > Len(manifolds) THEN [manifolds |-> manifolds, total |-> total]
    ELSE LET r == MatchPrevious([manifold |-> manifolds[i], total |-> total],
                                prev_manifolds, 1)
         IN  MatchManifolds([manifolds EXCEPT ![i] = r.manifold],
                            prev_manifolds, i + 1, r.total)

\* Number of manifolds up to which contacts are matched.
MatchManifoldLimit == 4

\* A lookup of the previous contacts under the key (entity1, entity2) only.
previous_contacts_in_given_order(st, e1, e2) ==
    IF <<e1, e2>> \in DOMAIN st THEN <<st[<<e1, e2>>]>> ELSE <<>>

\* The previous contacts of the pair, probing both key orders: <<c>> or <<>>.
previous_contacts(st, e1, e2) ==
    IF <<e1, e2>> \in DOMAIN st THEN <<st[<<e1, e2>>]>>
    ELSE IF <<e2, e1>> \in DOMAIN st THEN <<st[<<e2, e1>>]>>
    ELSE <<>>

\* A compute_contacts that matches contacts whether or not warm starting
\* is enabled.
new_contacts_ignores_match_flag(st, w, g, e1, e2, max_distance, match) ==
    LET manifolds == contact_manifolds(g, max_distance)
        prev == previous_contacts(st, e1, e2)
        matched ==
            IF Len(manifolds) <= MatchManifoldLimit /\ prev # <<>>
            THEN MatchManifolds(manifolds, prev[1].manifolds, 1, 0)
            ELSE [manifolds |-> manifolds, total |-> 0]
    IN  [entity1 |-> e1,
         entity2 |-> e2,
         body_entity1 |-> w[e1].parent,
         body_entity2 |-> w[e2].parent,
         during_current_frame |-> TRUE,
         during_previous_frame |->
            IF prev = <<>> THEN FALSE ELSE prev[1].during_previous_frame,
         manifolds |-> matched.manifolds,
         is_sensor |-> \/ w[e1].sensor \/ w[e2].sensor
                       \/ ~is_rb(w, e1) \/ ~is_rb(w, e2),
         total_normal_impulse |-> matched.total]

\* A compute_contacts that matches contacts however many manifolds the
\* backend returned.
new_contacts_without_manifold_limit(st, w, g, e1, e2, max_distance, match) ==
    LET manifolds == contact_manifolds(g, max_distance)
        prev == previous_contacts(st, e1, e2)
        matched ==
            IF match /\ prev # <<>>
            THEN MatchManifolds(manifolds, prev[1].manifolds, 1, 0)
            ELSE [manifolds |-> manifolds, total |-> 0]
    IN  [entity1 |-> e1,
         entity2 |-> e2,
         body_entity1 |-> w[e1].parent,
         body_entity2 |-> w[e2].parent,
         during_current_frame |-> TRUE,
         during_previous_frame |->
            IF prev = <<>> THEN FALSE ELSE prev[1].during_previous_frame,
         manifolds |-> matched.manifolds,
         is_sensor |-> \/ w[e1].sensor \/ w[e2].sensor
                       \/ ~is_rb(w, e1) \/ ~is_rb(w, e2),
         total_normal_impulse |-> matched.total]

\* The Contacts value that compute_contacts builds.
new_contacts(st, w, g, e1, e2, max_distance, match) ==
    LET manifolds == contact_manifolds(g, max_distance)
        prev == previous_contacts(st, e1, e2)
        matched ==
            IF Len(manifolds) <= MatchManifoldLimit /\ match /\ prev # <<>>
            THEN MatchManifolds(manifolds, prev[1].manifolds, 1, 0)
            ELSE [manifolds |-> manifolds, total |-> 0]
    IN  [entity1 |-> e1,
         entity2 |-> e2,
         body_entity1 |-> w[e1].parent,
         body_entity2 |-> w[e2].parent,
         during_current_frame |-> TRUE,
         during_previous_frame |->
            IF prev = <<>> THEN FALSE ELSE prev[1].during_previous_frame,
         manifolds |-> matched.manifolds,
         is_sensor |-> \/ w[e1].sensor \/ w[e2].sensor
                       \/ ~is_rb(w, e1) \/ ~is_rb(w, e2),
         total_normal_impulse |-> matched.total]

\* A compute_contacts that returns the contacts even without manifolds.
compute_contacts_keeps_empty(st, w, g, e1, e2, max_distance, match) ==
    <<new_contacts(st, w, g, e1, e2, max_distance, match)>>

\* NarrowPhase::compute_contacts: <<contacts>> or <<>> (None).
compute_contacts(st, w, g, e1, e2, max_distance, match) ==
    LET contacts == new_contacts(st, w, g, e1, e2, max_distance, match)
    IN  IF contacts.manifolds # <<>> THEN <<contacts>> ELSE <<>>

(***************************************************************************)
(* Constraint generation.                                                  *)
(***************************************************************************)
\* ContactConstraint::generate for manifold i of the contacts.
ContactConstraint(i, manifold, e1, e2) ==
    [entity1 |-> e1, entity2 |-> e2, manifold_index |-> i, points |-> manifold]

RECURSIVE ManifoldConstraints(_, _, _, _)
ManifoldConstraints(manifolds, i, e1, e2) ==
    IF i > Len(manifolds) THEN <<>>
    ELSE (IF manifolds[i] # <<>>
          THEN <<ContactConstraint(i - 1, manifolds[i], e1, e2)>> ELSE <<>>)
         \o ManifoldConstraints(manifolds, i + 1, e1, e2)

NoConstraints == [constraints |-> <<>>, commands |-> <<>>]

\* A generate_constraints that wakes the first body whether it sleeps or not.
generated_wakes_first_body(w, contacts, b1, b2, e1, e2) ==
    [constraints |-> ManifoldConstraints(contacts.manifolds, 1, e1, e2),
     commands |-> <<b1>>]

\* The constraints and commands of generate_constraints past its early return.
generated(w, contacts, b1, b2, e1, e2) ==
    [constraints |-> ManifoldConstraints(contacts.manifolds, 1, e1, e2),
     commands |-> IF w[b1].sleeping THEN <<b1>>
                  ELSE IF w[b2].sleeping THEN <<b2>>
                  ELSE <<>>]

\* A generate_constraints that looks at the colliders' sensor flags only.
generate_constraints_ignores_body_sensor(w, contacts, b1, b2, e1, e2) ==
    LET inactive1 == is_static(w, b1) \/ w[b1].sleeping
        inactive2 == is_static(w, b2) \/ w[b2].sleeping
    IN  IF (inactive1 /\ inactive2) \/ w[e1].sensor \/ w[e2].sensor
        THEN NoConstraints
        ELSE generated(w, contacts, b1, b2, e1, e2)

\* A generate_constraints that looks at the bodies' sensor flags only.
generate_constraints_ignores_collider_sensor(w, contacts, b1, b2, e1, e2) ==
    LET inactive1 == is_static(w, b1) \/ w[b1].sleeping
        inactive2 == is_static(w, b2) \/ w[b2].sleeping
    IN  IF (inactive1 /\ inactive2) \/ w[b1].sensor \/ w[b2].sensor
        THEN NoConstraints
        ELSE generated(w, contacts, b1, b2, e1, e2)

\* NarrowPhase::generate_constraints: the constraints pushed and the
\* commands queued.
generate_constraints(w, contacts, b1, b2, e1, e2) ==
    LET inactive1 == is_static(w, b1) \/ w[b1].sleeping
        inactive2 == is_static(w, b2) \/ w[b2].sleeping
    IN  IF \/ (inactive1 /\ inactive2)
           \/ (w[e1].sensor \/ w[b1].sensor)
           \/ (w[e2].sensor \/ w[b2].sensor)
        THEN NoConstraints
        ELSE generated(w, contacts, b1, b2, e1, e2)

\* A handle_pair that goes on to generate_constraints whenever both bodies
\* exist, dynamic or not.
reaches_generate_constraints_any_body(w, b1, b2) ==
    b1 # NoEntity /\ b2 # NoEntity

\* handle_pair reaches generate_constraints: both bodies exist and at least
\* one of them is dynamic.
reaches_generate_constraints(w, b1, b2) ==
    /\ b1 # NoEntity /\ b2 # NoEntity
    /\ ~(~is_dynamic(w, b1) /\ ~is_dynamic(w, b2))

(***************************************************************************)
(* NarrowPhase::handle_pair.                                               *)
(***************************************************************************)
handle_pair(st, w, g, e1, e2, dsm, tol, warm, delta_secs) ==
    IF ~collider_query_get_many(w, e1, e2)
    THEN [contacts |-> <<>>, constraints |-> <<>>, commands |-> <<>>]
    ELSE
    LET b1 == body_bundle(w, e1)
        b2 == body_bundle(w, e2)
        found == compute_contacts(st, w, g, e1, e2,
                     max_contact_distance(w, e1, e2, dsm, tol, delta_secs), warm)
    IN  IF found = <<>>
        THEN [contacts |-> <<>>, constraints |-> <<>>, commands |-> <<>>]
        ELSE IF reaches_generate_constraints(w, b1, b2)
        THEN LET gen == generate_constraints(w, found[1], b1, b2, e1, e2)
             IN  [contacts |-> found, constraints |-> gen.constraints,
                  commands |-> gen.commands]
        ELSE [contacts |-> found, constraints |-> <<>>, commands |-> <<>>]

(***************************************************************************)
(* The Collisions store.                                                   *)
(***************************************************************************)
\* Collisions::insert_collision_pair: keyed by (entity1, entity2) as given.
insert_collision_pair(st, c) ==
    LET key == <<c.entity1, c.entity2>>
    IN  [k \in DOMAIN st \cup {key} |-> IF k = key THEN c ELSE st[k]]

\* Collisions::extend: insert each in order.
RECURSIVE extend(_, _)
extend(st, cs) ==
    IF cs = <<>> THEN st ELSE extend(insert_collision_pair(st, Head(cs)), Tail(cs))

\* A prune that keeps what was in contact in the previous frame instead.
retain_during_previous_frame(st) ==
    LET kept == {k \in DOMAIN st : st[k].during_previous_frame}
    IN  [k \in kept |-> st[k]]

\* Collisions::retain(|contacts| contacts.during_current_frame)
retain_during_current_frame(st) ==
    LET kept == {k \in DOMAIN st : st[k].during_current_frame}
    IN  [k \in kept |-> st[k]]

\* A reset that leaves during_previous_frame as it finds it.
reset_contacts_keeps_previous(w, c) ==
    LET zeroed == [c EXCEPT !.total_normal_impulse = 0]
    IN  IF w[c.entity1].alive /\ w[c.entity2].alive
        THEN LET active1 == ~is_static(w, c.entity1) /\ ~w[c.entity1].sleeping
                 active2 == ~is_static(w, c.entity2) /\ ~w[c.entity2].sleeping
             IN  [zeroed EXCEPT !.during_current_frame = ~(active1 \/ active2)]
        ELSE [zeroed EXCEPT !.during_current_frame = FALSE]

\* The body of the loop of reset_collision_states for one entry.
reset_contacts(w, c) ==
    LET zeroed == [c EXCEPT !.total_normal_impulse = 0]
    IN  IF w[c.entity1].alive /\ w[c.entity2].alive
        THEN LET active1 == ~is_static(w, c.entity1) /\ ~w[c.entity1].sleeping
                 active2 == ~is_static(w, c.entity2) /\ ~w[c.entity2].sleeping
             IN  IF active1 \/ active2
                 THEN [zeroed EXCEPT !.during_previous_frame = TRUE,
                                     !.during_current_frame = FALSE]
                 ELSE [zeroed EXCEPT !.during_previous_frame = TRUE,
                                     !.during_current_frame = TRUE]
        ELSE [zeroed EXCEPT !.during_current_frame = FALSE]

(***************************************************************************)
(* The pair loops of NarrowPhase::update as functions of the pass's input. *)
(***************************************************************************)
HandleNow(st, e1, e2) ==
    handle_pair(st, world, geom, e1, e2, default_speculative_margin,
                contact_tolerance, warm_start, DeltaSecs)

\* Sequential loop from position i: insert after each pair.
RECURSIVE SequentialFrom(_, _, _)
SequentialFrom(st, cons, i) ==
    IF i > Len(pairs) THEN [collisions |-> st, constraints |-> cons]
    ELSE LET r == HandleNow(st, pairs[i][1], pairs[i][2])
         IN  SequentialFrom(
                IF r.contacts # <<>> THEN insert_collision_pair(st, r.contacts[1])
                ELSE st,
                cons \o r.constraints, i + 1)

\* Parallel loop: every pair is handled against the store as the pass found
\* it, and the chunks' results are merged in chunk order.
RECURSIVE ParallelFrom(_, _, _, _)
ParallelFrom(st0, st, cons, i) ==
    IF i > Len(pairs) THEN [collisions |-> st, constraints |-> cons]
    ELSE LET r == HandleNow(st0, pairs[i][1], pairs[i][2])
         IN  ParallelFrom(st0, extend(st, r.contacts),
                          cons \o r.constraints, i + 1)

(***************************************************************************)
(* Initial states.                                                         *)
(***************************************************************************)
Components(alive, collider, rb, sleeping, sensor, parent, lin_vel, margin) ==
    [alive |-> alive, collider |-> collider, rb |-> rb, sleeping |-> sleeping,
     sensor |-> sensor, parent |-> parent, lin_vel |-> lin_vel,
     speculative_margin |-> margin]

\* A collider that is its own rigid body.
BodyCollider(e, rb, sleeping, sensor, lin_vel) ==
    Components(TRUE, TRUE, rb, sleeping, sensor, e, lin_vel, NoMargin)
\* A collider without a rigid body.
BareCollider(sensor) ==
    Components(TRUE, TRUE, "none", FALSE, sensor, NoEntity, 0, NoMargin)
\* A collider on a child entity of rigid body p.
ChildCollider(p, sensor) ==
    Components(TRUE, TRUE, "none", FALSE, sensor, p, 0, NoMargin)
\* A rigid body without a collider.
Body(rb, sleeping, sensor) ==
    Components(TRUE, FALSE, rb, sleeping, sensor, NoEntity, 0, NoMargin)

Speed == 2

Colliders1 ==
    {BodyCollider(1, "dynamic", FALSE, FALSE, Speed),
     BodyCollider(1, "dynamic", TRUE, FALSE, 0),
     BodyCollider(1, "kinematic", FALSE, FALSE, 0),
     BareCollider(FALSE)}

Colliders2 ==
    {BodyCollider(2, "dynamic", FALSE, FALSE, 0),
     BodyCollider(2, "dynamic", TRUE, FALSE, 0),
     BodyCollider(2, "static", FALSE, FALSE, 0),
     ChildCollider(3, FALSE),
     ChildCollider(3, TRUE)}

Bodies3 ==
    {Body("dynamic", FALSE, FALSE),
     Body("dynamic", TRUE, FALSE),
     Body("dynamic", FALSE, TRUE)}

Worlds ==
    {w \in [Entities -> Colliders1 \cup Colliders2 \cup Bodies3] :
        /\ w[1] \in Colliders1
        /\ w[2] \in Colliders2
        /\ w[3] \in Bodies3
        /\ (w[2].parent # 3 => w[3] = Body("dynamic", FALSE, FALSE))
        /\ (w[2].sensor => w[3] = Body("dynamic", FALSE, FALSE))}

\* One manifold with one point, and two manifolds with one point each.
Shapes ==
    {<< <<Point(1)>> >>,
     << <<Point(1)>>, <<Point(2)>> >>}

\* Touching with either shape, or apart by 2 or by 3 (beyond the contact
\* tolerance; 2 is within reach of a body moving at Speed).
Geoms ==
    [sep : {0}, shape : Shapes]
    \cup [sep : {2, 3}, shape : {<< <<Point(1)>> >>}]

CandidatePairs == {<<1, 2>>, <<2, 1>>}

RECURSIVE SeqsUpTo(_, _)
SeqsUpTo(S, n) ==
    IF n = 0 THEN {<<>>}
    ELSE LET shorter == SeqsUpTo(S, n - 1)
         IN  shorter \cup {Append(s, x) : s \in shorter, x \in S}

PairLists == SeqsUpTo(CandidatePairs, MaxPairs)

EmptyCollisions == [k \in {} |-> 0]

Init ==
    /\ world \in Worlds
    /\ geom \in Geoms
    /\ pairs \in PairLists
    /\ warm_start = TRUE
    /\ parallel \in BOOLEAN
    /\ config = [default_speculative_margin |-> ScalarMax,
                 contact_tolerance |-> DefaultContactTolerance]
    /\ length_unit = 1
    /\ config_is_changed = TRUE
    /\ default_speculative_margin = 0
    /\ contact_tolerance = 0
    /\ collisions = EmptyCollisions
    /\ constraints = <<>>
    /\ commands = <<>>
    /\ workers = <<>>
    /\ idx = 0
    /\ pc = "reset"
    /\ collisions0 = EmptyCollisions
    /\ call = <<>>
    /\ ret = <<>>
    /\ ran = <<>>

(***************************************************************************)
(* The systems of the physics schedule, in schedule order.                 *)
(***************************************************************************)
\* A schedule in which the prune runs right behind the reset pass.
ResetCollisionStatesThenPrune ==
    /\ pc = "reset"
    /\ collisions' = retain_during_current_frame(
            [k \in DOMAIN collisions |-> reset_contacts(world, collisions[k])])
    /\ collisions0' = collisions
    /\ pc' = "collect"
    /\ UNCHANGED <<callVars, scheduleVars, envVars, localVars, constraints, commands, workers, idx>>

\* reset_collision_states
ResetCollisionStates ==
    /\ pc = "reset"
    /\ collisions' = [k \in DOMAIN collisions |-> reset_contacts(world, collisions[k])]
    /\ collisions0' = collisions
    /\ pc' = "collect"
    /\ UNCHANGED <<callVars, scheduleVars, envVars, localVars, constraints, commands, workers, idx>>

\* Tasks of par_splat_map: contiguous chunks of the given size.
Chunks(n, size) ==
    [t \in 1..((n + size - 1) \div size) |->
        [next |-> (t - 1) * size + 1,
         last |-> Min(t * size, n),
         new_collisions |-> <<>>,
         new_constraints |-> <<>>]]

\* An update that does not clear the constraints of the step before.
UpdateBeginKeepsConstraints ==
    /\ pc = "collect"
    /\ IF config_is_changed
       THEN /\ default_speculative_margin' =
                    Scaled(length_unit, config.default_speculative_margin)
            /\ contact_tolerance' = Scaled(length_unit, config.contact_tolerance)
       ELSE UNCHANGED <<default_speculative_margin, contact_tolerance>>
    /\ config_is_changed' = FALSE
    /\ constraints' = constraints
    /\ collisions0' = collisions
    /\ IF parallel
       THEN /\ \E size \in 1..Max(1, Len(pairs)) :
                    workers' = Chunks(Len(pairs), size)
            /\ idx' = 0
            /\ pc' = "par"
       ELSE /\ workers' = <<>>
            /\ idx' = 1
            /\ pc' = "seq"
    /\ UNCHANGED <<callVars, scheduleVars, envVars, collisions, commands>>

\* collect_collisions, NarrowPhase::update up to the pair loop: refresh the
\* scaled margins when the configuration changed, clear the constraints,
\* and (parallel) split the pairs into chunks.
UpdateBegin ==
    /\ pc = "collect"
    /\ IF config_is_changed
       THEN /\ default_speculative_margin' =
                    Scaled(length_unit, config.default_speculative_margin)
            /\ contact_tolerance' = Scaled(length_unit, config.contact_tolerance)
       ELSE UNCHANGED <<default_speculative_margin, contact_tolerance>>
    /\ config_is_changed' = FALSE
    /\ constraints' = <<>>
    /\ collisions0' = collisions
    /\ IF parallel
       THEN /\ \E size \in 1..Max(1, Len(pairs)) :
                    workers' = Chunks(Len(pairs), size)
            /\ idx' = 0
            /\ pc' = "par"
       ELSE /\ workers' = <<>>
            /\ idx' = 1
            /\ pc' = "seq"
    /\ UNCHANGED <<callVars, scheduleVars, envVars, collisions, commands>>

\* One iteration of the sequential loop of update.
SequentialPair ==
    /\ pc = "seq"
    /\ idx <= Len(pairs)
    /\ LET r == HandleNow(collisions, pairs[idx][1], pairs[idx][2])
       IN  /\ collisions' = IF r.contacts # <<>>
                            THEN insert_collision_pair(collisions, r.contacts[1])
                            ELSE collisions
           /\ constraints' = constraints \o r.constraints
           /\ commands' = commands \o r.commands
    /\ idx' = idx + 1
    /\ UNCHANGED <<callVars, scheduleVars, envVars, localVars, workers, pc, collisions0>>

\* A task that writes its results into the shared store and list at once.
WorkerPairInPlace(t) ==
    /\ pc = "par"
    /\ workers[t].next <= workers[t].last
    /\ LET i == workers[t].next
           r == HandleNow(collisions, pairs[i][1], pairs[i][2])
       IN  /\ workers' = [workers EXCEPT ![t].next = i + 1]
           /\ collisions' = extend(collisions, r.contacts)
           /\ constraints' = constraints \o r.constraints
           /\ commands' = commands \o r.commands
    /\ UNCHANGED <<callVars, scheduleVars, envVars, localVars, idx, pc, collisions0>>

\* One iteration of the loop of task t over its chunk.
WorkerPair(t) ==
    /\ pc = "par"
    /\ workers[t].next <= workers[t].last
    /\ LET i == workers[t].next
           r == HandleNow(collisions, pairs[i][1], pairs[i][2])
       IN  /\ workers' = [workers EXCEPT
                ![t].next = i + 1,
                ![t].new_collisions = workers[t].new_collisions \o r.contacts,
                ![t].new_constraints = workers[t].new_constraints \o r.constraints]
           /\ commands' = commands \o r.commands
    /\ UNCHANGED <<callVars, scheduleVars, envVars, localVars, collisions, constraints, idx, pc, collisions0>>

RECURSIVE MergeFrom(_, _, _, _)
MergeFrom(ws, t, st, cons) ==
    IF t > Len(ws) THEN [collisions |-> st, constraints |-> cons]
    ELSE MergeFrom(ws, t + 1, extend(st, ws[t].new_collisions),
                   cons \o ws[t].new_constraints)

\* The for_each over the results of par_splat_map, once every task is done.
ParallelMerge ==
    /\ pc = "par"
    /\ \A t \in 1..Len(workers) : workers[t].next > workers[t].last
    /\ LET m == MergeFrom(workers, 1, collisions, constraints)
       IN  /\ collisions' = m.collisions
           /\ constraints' = m.constraints
    /\ workers' = <<>>
    /\ pc' = "merged"
    /\ UNCHANGED <<callVars, scheduleVars, envVars, localVars, commands, idx, collisions0>>

RECURSIVE ApplyCommands(_, _)
ApplyCommands(w, cmds) ==
    IF cmds = <<>> THEN w
    ELSE ApplyCommands([w EXCEPT ![Head(cmds)].sleeping = FALSE], Tail(cmds))

\* The end of collect_collisions: its deferred commands are applied.
ApplyDeferred ==
    /\ \/ pc = "seq" /\ idx > Len(pairs)
       \/ pc = "merged"
    /\ world' = ApplyCommands(world, commands)
    /\ commands' = <<>>
    /\ idx' = 0
    /\ pc' = "post"
    /\ UNCHANGED <<callVars, scheduleVars, geom, pairs, warm_start, parallel, config, length_unit,
                   localVars, collisions, constraints, workers, collisions0>>

\* run_post_process_collisions_schedule, with no user system registered.
RunPostProcess ==
    /\ pc = "post"
    /\ pc' = "solve"
    /\ UNCHANGED <<callVars, scheduleVars, envVars, localVars, collisions, constraints, commands,
                   workers, idx, collisions0>>

\* The solver consumes the constraints and stores the impulses it applied
\* back into the contacts the constraints came from.
StoreImpulses(st, cons, v) ==
    [k \in DOMAIN st |->
        IF \E i \in 1..Len(cons) : <<cons[i].entity1, cons[i].entity2>> = k
        THEN [st[k] EXCEPT !.manifolds =
                [m \in 1..Len(st[k].manifolds) |->
                    [p \in 1..Len(st[k].manifolds[m]) |->
                        [st[k].manifolds[m][p] EXCEPT !.normal_impulse = v]]]]
        ELSE st[k]]

Solve ==
    /\ pc = "solve"
    /\ \E v \in 1..MaxImpulse :
            collisions' = StoreImpulses(collisions, constraints, v)
    /\ pc' = "prune"
    /\ UNCHANGED <<callVars, scheduleVars, envVars, localVars, constraints, commands, workers, idx,
                   collisions0>>

\* remove_ended_collisions
RemoveEndedCollisions ==
    /\ pc = "prune"
    /\ collisions' = retain_during_current_frame(collisions)
    /\ collisions0' = collisions
    /\ pc' = "step"
    /\ UNCHANGED <<callVars, scheduleVars, envVars, localVars, constraints, commands, workers, idx>>

(***************************************************************************)
(* Between two steps: the rest of the simulation moves the bodies, puts    *)
(* them to sleep or wakes them, despawns entities, and the broad phase     *)
(* produces a new candidate list.                                          *)
(***************************************************************************)
\* A body some collider of the pair is attached to.
Attached(w, b) == \E e \in ColliderEntities : w[e].alive /\ w[e].parent = b

WorldChanges(w) ==
    {w}
    \cup {[w EXCEPT ![b].sleeping = ~w[b].sleeping] :
            b \in {e \in Entities : /\ w[e].alive /\ w[e].rb = "dynamic"
                                    /\ w[e].lin_vel = 0 /\ ~w[e].sensor
                                    /\ Attached(w, e)}}
    \cup {[w EXCEPT ![2].alive = FALSE]}

BetweenSteps ==
    /\ pc = "step"
    /\ world' \in WorldChanges(world)
    /\ geom' \in Geoms
    /\ pairs' \in PairLists
    /\ collisions0' = collisions
    /\ pc' = "reset"
    /\ UNCHANGED <<callVars, scheduleVars, warm_start, parallel, config, length_unit, localVars,
                   collisions, constraints, commands, workers, idx>>

Next ==
    \/ ResetCollisionStates
    \/ UpdateBegin
    \/ SequentialPair
    \/ \E t \in 1..Len(workers) : WorkerPair(t)
    \/ ParallelMerge
    \/ ApplyDeferred
    \/ RunPostProcess
    \/ Solve
    \/ RemoveEndedCollisions
    \/ BetweenSteps

Spec == Init /\ [][Next]_vars

(***************************************************************************)
(* compute_contacts called on its own, on stores, shapes and flags that    *)
(* the step-by-step specification above does not enumerate: previous       *)
(* entries of one or two manifolds with any impulses, under either key     *)
(* order, shapes of up to five manifolds, warm starting on and off.        *)
(***************************************************************************)
\* Largest impulse a point of a previous entry carries.
MaxPrevImpulse == 2
\* Most manifolds a previous entry has.
MaxPrevManifolds == 2

FeatureIds == {1, 2}

\* Two awake dynamic bodies, each its own collider.
CallWorld ==
    [e \in Entities |->
        IF e \in ColliderEntities
        THEN BodyCollider(e, "dynamic", FALSE, FALSE, 0)
        ELSE Body("dynamic", FALSE, FALSE)]

\* Manifolds of one point, as a previous entry holds them.
PrevManifolds ==
    {<<[fid |-> f, normal_impulse |-> v]>> :
        f \in FeatureIds, v \in 0..MaxPrevImpulse}

PrevManifoldLists ==
    SeqsUpTo(PrevManifolds, MaxPrevManifolds) \ {<<>>}

\* A stored entry as a previous step left it.
PrevContacts(k, manifolds, previous) ==
    [entity1 |-> k[1], entity2 |-> k[2],
     body_entity1 |-> k[1], body_entity2 |-> k[2],
     during_current_frame |-> FALSE,
     during_previous_frame |-> previous,
     manifolds |-> manifolds,
     is_sensor |-> FALSE,
     total_normal_impulse |-> 0]

\* The empty store and the stores with one entry for the pair.
PrevStores ==
    {EmptyCollisions}
    \cup {[k \in {key} |-> PrevContacts(key, ms, previous)] :
            key \in CandidatePairs, ms \in PrevManifoldLists,
            previous \in BOOLEAN}

\* What the backend returns: the shapes of the step-by-step specification,
\* one manifold of two points, and more manifolds than are matched.
CallShapes ==
    Shapes
    \cup {<< <<Point(1), Point(2)>> >>,
          [i \in 1..(MatchManifoldLimit + 1) |-> <<Point(1)>>]}

ComputeContactsCalls ==
    [fn : {"compute_contacts"},
     st : PrevStores,
     g : [sep : {0}, shape : CallShapes],
     pair : CandidatePairs,
     match : BOOLEAN]

\* NarrowPhase::compute_contacts on the arguments of the call.
CallComputeContacts ==
    /\ pc = "call"
    /\ call.fn = "compute_contacts"
    /\ ret' = compute_contacts(call.st, CallWorld, call.g,
                               call.pair[1], call.pair[2],
                               DefaultContactTolerance, call.match)
    /\ pc' = "return"
    /\ UNCHANGED <<scheduleVars, envVars, localVars, collisions, constraints, commands,
                   workers, idx, collisions0, call>>

(***************************************************************************)
(* The speculative margin computation called on its own, on margins,       *)
(* velocities, length units and time steps.                                *)
(***************************************************************************)
\* Largest speed of a body along the axis.
MaxSpeed == 3

Velocities == (0 - MaxSpeed)..MaxSpeed

\* No override, bounded overrides, and the unbounded override.  The bounded
\* ones are multiples of every time step.
MarginOverrides == {NoMargin, 0, 2, ScalarMax}

DefaultMargins == {2, ScalarMax}
LengthUnits == {1, 2}
DeltaSecsValues == {1, 2}

\* Collider 1 is its own rigid body; collider 2 is a child of rigid body 3
\* or has no rigid body.
MarginWorld(m1, v1, c2, attached, b3, v3) ==
    [e \in Entities |->
        IF e = 1 THEN Components(TRUE, TRUE, "dynamic", FALSE, FALSE, 1, v1, m1)
        ELSE IF e = 2
        THEN Components(TRUE, TRUE, "none", FALSE, FALSE,
                        IF attached THEN 3 ELSE NoEntity, 0, c2)
        ELSE Components(TRUE, FALSE, "dynamic", FALSE, FALSE, NoEntity, v3, b3)]

MarginWorlds ==
    {MarginWorld(m1, v1, c2, attached, b3, v3) :
        m1 \in MarginOverrides, v1 \in Velocities,
        c2 \in {NoMargin, 2}, attached \in BOOLEAN,
        b3 \in MarginOverrides, v3 \in Velocities}

MaxContactDistanceCalls ==
    [fn : {"max_contact_distance"},
     w : MarginWorlds,
     config : [default_speculative_margin : DefaultMargins,
               contact_tolerance : {DefaultContactTolerance}],
     length_unit : LengthUnits,
     delta_secs : DeltaSecsValues]

\* NarrowPhase::update's scaling of the configuration followed by the first
\* half of handle_pair, on the arguments of the call.
CallMaxContactDistance ==
    /\ pc = "call"
    /\ call.fn = "max_contact_distance"
    /\ ret' = max_contact_distance(call.w, 1, 2,
                    Scaled(call.length_unit, call.config.default_speculative_margin),
                    Scaled(call.length_unit, call.config.contact_tolerance),
                    call.delta_secs)
    /\ pc' = "return"
    /\ UNCHANGED <<scheduleVars, envVars, localVars, collisions, constraints, commands,
                   workers, idx, collisions0, call>>

(***************************************************************************)
(* The specification of the calls: one call, then its return.              *)
(***************************************************************************)
CallInit ==
    /\ call \in ComputeContactsCalls \cup MaxContactDistanceCalls
    /\ ret = <<>>
    /\ ran = <<>>
    /\ pc = "call"
    /\ world = CallWorld
    /\ geom = [sep |-> 0, shape |-> << <<Point(1)>> >>]
    /\ pairs = <<>>
    /\ warm_start = TRUE
    /\ parallel = FALSE
    /\ config = [default_speculative_margin |-> ScalarMax,
                 contact_tolerance |-> DefaultContactTolerance]
    /\ length_unit = 1
    /\ config_is_changed = TRUE
    /\ default_speculative_margin = 0
    /\ contact_tolerance = 0
    /\ collisions = EmptyCollisions
    /\ constraints = <<>>
    /\ commands = <<>>
    /\ workers = <<>>
    /\ idx = 0
    /\ collisions0 = EmptyCollisions

CallNext ==
    \/ CallComputeContacts
    \/ CallMaxContactDistance

CallSpec == CallInit /\ [][CallNext]_vars

(***************************************************************************)
(* Two narrow phase instances, for the collider types "A" and "B", in one  *)
(* App.  NarrowPhasePlugin::build is run once per instance and the systems *)
(* it adds are run one by one, in any order their sets allow.              *)
(***************************************************************************)
ColliderTypes == {"A", "B"}
\* The collider type of a system that is not generic over one.
NoColliderType == "none"

System(fn, collider) == [fn |-> fn, collider |-> collider]

\* An App with the solver of the other plugins and no narrow phase yet.
NoNarrowPhase ==
    [initialized |-> FALSE, systems |-> <<System("solver", NoColliderType)>>]

\* NarrowPhasePlugin::<C>::build
build(app, C) ==
    LET is_first_instance == ~app.initialized
    IN  [initialized |-> TRUE,
         systems |->
            app.systems
            \o (IF is_first_instance
                THEN <<System("reset_collision_states", NoColliderType),
                       System("remove_ended_collisions", NoColliderType)>>
                ELSE <<>>)
            \o <<System("collect_collisions", C)>>
            \o (IF is_first_instance
                THEN <<System("run_post_process_collisions_schedule",
                              NoColliderType)>>
                ELSE <<>>)]

\* The systems of the PhysicsSchedule once both plugins are built.
Schedule == build(build(NoNarrowPhase, "A"), "B").systems

\* Where the sets of a system place it in the step: NarrowPhaseSet::First
\* to CollectCollisions, CollectCollisions, PostProcess, the solver, and
\* ReportContacts to Sleeping.
Stage(fn) ==
    CASE fn = "reset_collision_states" -> 1
      [] fn = "collect_collisions" -> 2
      [] fn = "run_post_process_collisions_schedule" -> 3
      [] fn = "solver" -> 4
      [] fn = "remove_ended_collisions" -> 5

HasRun(i) == \E n \in 1..Len(ran) : ran[n] = i

\* System i of the schedule has not run in this step and every system of
\* an earlier set has.
Ready(i) ==
    /\ ~HasRun(i)
    /\ \A j \in 1..Len(Schedule) :
          Stage(Schedule[j].fn) < Stage(Schedule[i].fn) => HasRun(j)

\* Colliders 1 and 2 are of type "A", colliders 3 and 4 of type "B".
PluginEntities == 1..4
ColliderTypeOf(e) == IF e \in {1, 2} THEN "A" ELSE "B"

\* Query<ColliderQuery<C>>: the entities with a collider of type C.
collider_query(w, C) ==
    [e \in DOMAIN w |->
        [w[e] EXCEPT !.collider = w[e].collider /\ ColliderTypeOf(e) = C]]

\* The sequential loop of NarrowPhase::update from pair i on.
RECURSIVE update_pairs(_, _, _, _, _, _, _, _)
update_pairs(w, g, ps, i, acc, dsm, tol, warm) ==
    IF i > Len(ps) THEN acc
    ELSE LET r == handle_pair(acc.collisions, w, g, ps[i][1], ps[i][2],
                              dsm, tol, warm, DeltaSecs)
         IN  update_pairs(w, g, ps, i + 1,
                [collisions |->
                    IF r.contacts # <<>>
                    THEN insert_collision_pair(acc.collisions, r.contacts[1])
                    ELSE acc.collisions,
                 constraints |-> acc.constraints \o r.constraints,
                 commands |-> acc.commands \o r.commands],
                dsm, tol, warm)

\* NarrowPhase::update past the configuration cache: the constraints it is
\* given are cleared, then every pair is handled.
update(w, g, ps, st, cons, dsm, tol, warm) ==
    update_pairs(w, g, ps, 1,
                 [collisions |-> st, constraints |-> <<>>, commands |-> <<>>],
                 dsm, tol, warm)

\* Each collider is its own rigid body, dynamic or static; body 4 may sleep.
PluginBodies(e) ==
    {BodyCollider(e, "dynamic", FALSE, FALSE, 0),
     BodyCollider(e, "static", FALSE, FALSE, 0)}
    \cup (IF e = 4 THEN {BodyCollider(e, "dynamic", TRUE, FALSE, 0)} ELSE {})

PluginWorlds ==
    {w \in [PluginEntities -> UNION {PluginBodies(e) : e \in PluginEntities}] :
        \A e \in PluginEntities : w[e] \in PluginBodies(e)}

\* A pair of each collider type and a pair of mixed types.
PluginCandidatePairs == {<<1, 2>>, <<3, 4>>, <<1, 3>>}
PluginPairLists == SeqsUpTo(PluginCandidatePairs, MaxPairs)

\* Geometry seen for every pair: touching with either shape, or apart.
PluginGeoms ==
    [sep : {0}, shape : Shapes] \cup {[sep |-> 3, shape |-> << <<Point(1)>> >>]}

\* In this specification the Locals of NarrowPhase and the change detection
\* of the configuration are kept per instance.
PluginsInit ==
    /\ world \in PluginWorlds
    /\ geom \in PluginGeoms
    /\ pairs \in PluginPairLists
    /\ warm_start = TRUE
    /\ parallel = FALSE
    /\ config = [default_speculative_margin |-> ScalarMax,
                 contact_tolerance |-> DefaultContactTolerance]
    /\ length_unit = 1
    /\ config_is_changed = [C \in ColliderTypes |-> TRUE]
    /\ default_speculative_margin = [C \in ColliderTypes |-> 0]
    /\ contact_tolerance = [C \in ColliderTypes |-> 0]
    /\ collisions = EmptyCollisions
    /\ constraints = <<>>
    /\ commands = <<>>
    /\ workers = <<>>
    /\ idx = 0
    /\ pc = "schedule"
    /\ collisions0 = EmptyCollisions
    /\ call = <<>>
    /\ ret = <<>>
    /\ ran = <<>>

\* reset_collision_states; collisions0 keeps the store as it leaves it.
RunResetCollisionStates(i) ==
    /\ Schedule[i].fn = "reset_collision_states"
    /\ Ready(i)
    /\ collisions' =
          [k \in DOMAIN collisions |-> reset_contacts(world, collisions[k])]
    /\ collisions0' = collisions'
    /\ ran' = Append(ran, i)
    /\ UNCHANGED <<callVars, envVars, localVars, constraints, commands,
                   workers, idx, pc>>

\* collect_collisions::<C>: NarrowPhase::update of the instance for C.
RunCollectCollisions(i) ==
    /\ Schedule[i].fn = "collect_collisions"
    /\ Ready(i)
    /\ LET C == Schedule[i].collider
           dsm == IF config_is_changed[C]
                  THEN Scaled(length_unit, config.default_speculative_margin)
                  ELSE default_speculative_margin[C]
           tol == IF config_is_changed[C]
                  THEN Scaled(length_unit, config.contact_tolerance)
                  ELSE contact_tolerance[C]
           r == update(collider_query(world, C), geom, pairs, collisions,
                       constraints, dsm, tol, warm_start)
       IN  /\ default_speculative_margin' =
                 [default_speculative_margin EXCEPT ![C] = dsm]
           /\ contact_tolerance' = [contact_tolerance EXCEPT ![C] = tol]
           /\ config_is_changed' = [config_is_changed EXCEPT ![C] = FALSE]
           /\ collisions' = r.collisions
           /\ constraints' = r.constraints
           /\ commands' = commands \o r.commands
    /\ ran' = Append(ran, i)
    /\ UNCHANGED <<callVars, envVars, workers, idx, pc, collisions0>>

\* run_post_process_collisions_schedule, after the deferred commands of the
\* collect passes are applied.
RunPostProcessSchedule(i) ==
    /\ Schedule[i].fn = "run_post_process_collisions_schedule"
    /\ Ready(i)
    /\ world' = ApplyCommands(world, commands)
    /\ commands' = <<>>
    /\ ran' = Append(ran, i)
    /\ UNCHANGED <<callVars, geom, pairs, warm_start, parallel, config,
                   length_unit, localVars, collisions, constraints, workers,
                   idx, pc, collisions0>>

RunSolver(i) ==
    /\ Schedule[i].fn = "solver"
    /\ Ready(i)
    /\ \E v \in 1..MaxImpulse :
            collisions' = StoreImpulses(collisions, constraints, v)
    /\ ran' = Append(ran, i)
    /\ UNCHANGED <<callVars, envVars, localVars, constraints, commands, workers,
                   idx, pc, collisions0>>

RunRemoveEndedCollisions(i) ==
    /\ Schedule[i].fn = "remove_ended_collisions"
    /\ Ready(i)
    /\ collisions' = retain_during_current_frame(collisions)
    /\ ran' = Append(ran, i)
    /\ UNCHANGED <<callVars, envVars, localVars, constraints, commands, workers,
                   idx, pc, collisions0>>

\* Every system has run: the next step begins with new candidates.
NextStep ==
    /\ \A i \in 1..Len(Schedule) : HasRun(i)
    /\ ran' = <<>>
    /\ geom' \in PluginGeoms
    /\ pairs' \in PluginPairLists
    /\ UNCHANGED <<callVars, world, warm_start, parallel, config, length_unit,
                   localVars, collisions, constraints, commands, workers, idx,
                   pc, collisions0>>

PluginsNext ==
    \/ \E i \in 1..Len(Schedule) : RunResetCollisionStates(i)
    \/ \E i \in 1..Len(Schedule) : RunCollectCollisions(i)
    \/ \E i \in 1..Len(Schedule) : RunPostProcessSchedule(i)
    \/ \E i \in 1..Len(Schedule) : RunSolver(i)
    \/ \E i \in 1..Len(Schedule) : RunRemoveEndedCollisions(i)
    \/ NextStep

PluginsSpec == PluginsInit /\ [][PluginsNext]_vars

(***************************************************************************)
(* The steps of the schedule with the configuration and the length unit    *)
(* changed between steps by the rest of the App.                           *)
(***************************************************************************)
ContactTolerances == {DefaultContactTolerance, 2}

\* Values of the NarrowPhaseConfig resource.
Configs ==
    [default_speculative_margin : DefaultMargins,
     contact_tolerance : ContactTolerances]

\* A dynamic body moving at Speed next to a static one.
SettingsWorld ==
    [e \in Entities |->
        IF e = 1 THEN BodyCollider(1, "dynamic", FALSE, FALSE, Speed)
        ELSE IF e = 2 THEN BodyCollider(2, "static", FALSE, FALSE, 0)
        ELSE Body("dynamic", FALSE, FALSE)]

SettingsInit ==
    /\ world = SettingsWorld
    /\ geom \in Geoms
    /\ pairs \in PairLists
    /\ warm_start = TRUE
    /\ parallel \in BOOLEAN
    /\ config \in Configs
    /\ length_unit \in LengthUnits
    /\ config_is_changed = TRUE
    /\ default_speculative_margin = 0
    /\ contact_tolerance = 0
    /\ collisions = EmptyCollisions
    /\ constraints = <<>>
    /\ commands = <<>>
    /\ workers = <<>>
    /\ idx = 0
    /\ pc = "reset"
    /\ collisions0 = EmptyCollisions
    /\ call = <<>>
    /\ ret = <<>>
    /\ ran = <<>>

\* A system writes the NarrowPhaseConfig resource, which marks it changed
\* whatever value is written.
ChangeConfig ==
    /\ pc = "step"
    /\ config' \in Configs
    /\ config_is_changed' = TRUE
    /\ UNCHANGED <<callVars, scheduleVars, world, geom, pairs, warm_start,
                   parallel, length_unit, default_speculative_margin,
                   contact_tolerance, collisions, constraints, commands,
                   workers, idx, pc, collisions0>>

\* A system writes the PhysicsLengthUnit resource.
ChangeLengthUnit ==
    /\ pc = "step"
    /\ length_unit' \in LengthUnits \ {length_unit}
    /\ UNCHANGED <<callVars, scheduleVars, world, geom, pairs, warm_start,
                   parallel, config, localVars, collisions, constraints,
                   commands, workers, idx, pc, collisions0>>

SettingsNext ==
    \/ Next
    \/ ChangeConfig
    \/ ChangeLengthUnit

SettingsSpec == SettingsInit /\ [][SettingsNext]_vars

(***************************************************************************)
(* Vocabulary of the properties.                                           *)
(***************************************************************************)
\* Body b exists and is active: neither static nor sleeping.
ActiveBody(w, b) == b # NoEntity /\ ~is_static(w, b) /\ ~w[b].sleeping
\* Body b exists and is static or sleeping.
InactiveBody(w, b) == b # NoEntity /\ (is_static(w, b) \/ w[b].sleeping)

\* The rigid body entity e is attached to, if e exists and has one.
BodyOf(w, e) == IF w[e].alive THEN body_bundle(w, e) ELSE NoEntity

PairHasActiveBody(w, k) ==
    \E e \in {k[1], k[2]} : ActiveBody(w, BodyOf(w, e))
BothBodiesInactive(w, k) ==
    \A e \in {k[1], k[2]} : InactiveBody(w, BodyOf(w, e))
BothEntitiesExist(w, k) == w[k[1]].alive /\ w[k[2]].alive

\* The geometry backend returns manifolds for the colliders e1, e2.
Detects(e1, e2) ==
    /\ collider_query_get_many(world, e1, e2)
    /\ contact_manifolds(geom,
            max_contact_distance(world, e1, e2, default_speculative_margin,
                                 contact_tolerance, DeltaSecs)) # <<>>

\* The pass of this step finds the contact of key k again.
Redetected(k) ==
    \E i \in 1..Len(pairs) : pairs[i] = k /\ Detects(k[1], k[2])

\* From the end of the reset pass up to the prune pass.
AfterReset == pc \in {"collect", "seq", "par", "merged", "post", "solve", "prune"}
\* From the end of the collect pass up to the prune pass.
AfterCollect == pc \in {"post", "solve", "prune"}

(***************************************************************************)
(* C1.  Right after remove_ended_collisions the store holds exactly the    *)
(* entries that had during_current_frame = TRUE just before it, each       *)
(* unchanged, and so no entry with during_current_frame = FALSE.           *)
(***************************************************************************)
C1_PruneKeepsExactlyCurrent ==
    pc = "step" =>
        /\ DOMAIN collisions =
              {k \in DOMAIN collisions0 : collisions0[k].during_current_frame}
        /\ \A k \in DOMAIN collisions :
              collisions[k] = collisions0[k] /\ collisions[k].during_current_frame

\* A prune that removed one entry and kept another.
C1_Witness ==
    /\ pc = "step"
    /\ DOMAIN collisions # {}
    /\ DOMAIN collisions0 # DOMAIN collisions

(***************************************************************************)
(* C2.  As claimed: an entry whose pair has an active body and whose       *)
(* contact is not found again in a step is, from the reset pass to the     *)
(* prune pass of that step, in the store with during_current_frame = FALSE *)
(* and during_previous_frame = TRUE, and the prune of that step removes it.*)
(***************************************************************************)
EndedEntryObservable(k) ==
    /\ k \in DOMAIN collisions
    /\ ~collisions[k].during_current_frame
    /\ collisions[k].during_previous_frame

C2_EndedEntryObservableThenPruned ==
    /\ AfterReset =>
        \A k \in DOMAIN collisions0 :
            PairHasActiveBody(world, k) /\ ~Redetected(k)
                => EndedEntryObservable(k)
    /\ pc = "step" =>
        \A k \in DOMAIN collisions0 :
            PairHasActiveBody(world, k) /\ ~Redetected(k)
                => k \notin DOMAIN collisions

(***************************************************************************)
(* C2, amended: the same for an entry whose two entities both still exist  *)
(* when the step begins.  (When an entity is gone, the reset pass clears   *)
(* during_current_frame and leaves during_previous_frame as it was.)       *)
(***************************************************************************)
C2_Amended ==
    /\ AfterReset =>
        \A k \in DOMAIN collisions0 :
            BothEntitiesExist(world, k) /\ PairHasActiveBody(world, k)
                /\ ~Redetected(k)
                => EndedEntryObservable(k)
    /\ pc = "step" =>
        \A k \in DOMAIN collisions0 :
            BothEntitiesExist(world, k) /\ PairHasActiveBody(world, k)
                /\ ~Redetected(k)
                => k \notin DOMAIN collisions

\* An ended contact between reset and prune: the pair is in the candidate
\* list, the shapes are apart, and the entry shows (FALSE, TRUE).
C2_Witness ==
    /\ pc = "prune"
    /\ \E k \in DOMAIN collisions0 :
        /\ BothEntitiesExist(world, k) /\ PairHasActiveBody(world, k)
        /\ ~Redetected(k)
        /\ \E i \in 1..Len(pairs) : pairs[i] = k
        /\ EndedEntryObservable(k)

(***************************************************************************)
(* C3.  As claimed: an entry whose two bodies are both static or sleeping  *)
(* has during_current_frame = TRUE from the reset pass to the prune pass   *)
(* of every step, and the prune pass does not remove it.                   *)
(***************************************************************************)
C3_RestingPairPersists ==
    /\ AfterReset =>
        \A k \in DOMAIN collisions :
            BothBodiesInactive(world, k) => collisions[k].during_current_frame
    /\ pc = "step" =>
        \A k \in DOMAIN collisions0 :
            BothBodiesInactive(world, k) => k \in DOMAIN collisions

(***************************************************************************)
(* Vocabulary of the collect pass.                                         *)
(***************************************************************************)
\* The pair loop is running or has just ended; the deferred commands of
\* the pass are not applied yet.
InPairLoop == pc \in {"seq", "par", "merged"}
\* The pair loop has handled every pair.
PairLoopDone == pc = "merged" \/ (pc = "seq" /\ idx > Len(pairs))

\* The geometry backend is called for the colliders e1, e2 and returns no
\* manifolds.
BackendReturnsNone(e1, e2) ==
    /\ collider_query_get_many(world, e1, e2)
    /\ contact_manifolds(geom,
            max_contact_distance(world, e1, e2, default_speculative_margin,
                                 contact_tolerance, DeltaSecs)) = <<>>

\* What handle_pair returns for candidate i against the store as it is.
Handled(i) == HandleNow(collisions, pairs[i][1], pairs[i][2])

\* No task of the parallel loop holds a result.
NoLocalResults ==
    \A t \in 1..Len(workers) :
        workers[t].new_collisions = <<>> /\ workers[t].new_constraints = <<>>
NoLocalConstraints ==
    \A t \in 1..Len(workers) : workers[t].new_constraints = <<>>

\* Every candidate whose shapes are in contact has its record in the store,
\* marked as in contact in the current frame.
DetectedAreStored ==
    \A i \in 1..Len(pairs) :
        Detects(pairs[i][1], pairs[i][2]) =>
            /\ pairs[i] \in DOMAIN collisions
            /\ collisions[pairs[i]].during_current_frame

(***************************************************************************)
(* C4.  For candidate pairs for which the geometry backend returns no      *)
(* manifolds, handle_pair returns nothing and appends no constraint, and   *)
(* the collect pass leaves the store as the reset pass left it.            *)
(***************************************************************************)
C4_NoManifoldsNoEffect ==
    (\A i \in 1..Len(pairs) : BackendReturnsNone(pairs[i][1], pairs[i][2])) =>
        /\ pc \in {"seq", "par", "merged", "post"} =>
              /\ collisions = collisions0
              /\ constraints = <<>>
              /\ NoLocalResults
        /\ InPairLoop =>
              \A i \in 1..Len(pairs) :
                  Handled(i).contacts = <<>> /\ Handled(i).constraints = <<>>

\* The shapes are farther apart than max_contact_distance although one body
\* moves, the pair was a candidate, and the entry of the previous step is
\* still as the reset pass left it.
C4_Witness ==
    /\ pc = "post"
    /\ pairs # <<>>
    /\ \A i \in 1..Len(pairs) : BackendReturnsNone(pairs[i][1], pairs[i][2])
    /\ geom.sep > contact_tolerance
    /\ world[1].lin_vel # 0
    /\ \E k \in DOMAIN collisions :
          /\ \E i \in 1..Len(pairs) : pairs[i] = k
          /\ ~collisions[k].during_current_frame
          /\ collisions[k].during_previous_frame

(***************************************************************************)
(* C5.  When either collider or either body is a sensor, or either         *)
(* collider has no attached rigid body, the collect pass appends no        *)
(* constraint, and the record of a pair in contact is still inserted.      *)
(***************************************************************************)
SensorSide(w, e) ==
    \/ w[e].sensor
    \/ BodyOf(w, e) = NoEntity
    \/ (BodyOf(w, e) # NoEntity /\ w[BodyOf(w, e)].sensor)

SensorOrBodiless(w) == \E e \in ColliderEntities : SensorSide(w, e)

C5_SensorPairNoConstraint ==
    SensorOrBodiless(world) =>
        /\ pc \in {"seq", "par", "merged", "post", "solve", "prune"} =>
              constraints = <<>> /\ NoLocalConstraints
        /\ InPairLoop =>
              \A i \in 1..Len(pairs) : Handled(i).constraints = <<>>
        /\ AfterCollect => DetectedAreStored

\* The sensor flag is on the body only (collider 2 is a child of sensor
\* body 3), the other body is dynamic and awake, and the record is stored.
C5_Witness ==
    /\ pc = "post"
    /\ world[2].alive /\ world[2].parent = 3 /\ ~world[2].sensor
    /\ world[3].sensor
    /\ ActiveBody(world, BodyOf(world, 1)) /\ is_dynamic(world, 1)
    /\ pairs # <<>>
    /\ DetectedAreStored
    /\ \E i \in 1..Len(pairs) : pairs[i] \in DOMAIN collisions
    /\ constraints = <<>>

(***************************************************************************)
(* C6.  A Contacts record with is_sensor = TRUE comes with no constraint:  *)
(* not from the call of handle_pair that produced it, not in a task's      *)
(* local results, and no constraint of the list belongs to a store entry   *)
(* with is_sensor = TRUE.                                                  *)
(***************************************************************************)
ConstraintOf(c, contacts) ==
    c.entity1 = contacts.entity1 /\ c.entity2 = contacts.entity2

C6_SensorRecordNoConstraint ==
    /\ \A i \in 1..Len(constraints) : \A k \in DOMAIN collisions :
          ConstraintOf(constraints[i], collisions[k]) => ~collisions[k].is_sensor
    /\ \A t \in 1..Len(workers) :
          \A i \in 1..Len(workers[t].new_constraints) :
          \A j \in 1..Len(workers[t].new_collisions) :
              ConstraintOf(workers[t].new_constraints[i],
                           workers[t].new_collisions[j])
                  => ~workers[t].new_collisions[j].is_sensor
    /\ InPairLoop =>
          \A i \in 1..Len(pairs) :
              (Handled(i).contacts # <<>> /\ Handled(i).contacts[1].is_sensor)
                  => Handled(i).constraints = <<>>

\* A record marked is_sensor because collider 2 is flagged a sensor, while
\* both bodies are dynamic and awake; it is stored without a constraint.
C6_Witness ==
    /\ pc = "post"
    /\ world[2].alive /\ world[2].sensor
    /\ ActiveBody(world, BodyOf(world, 1)) /\ ActiveBody(world, BodyOf(world, 2))
    /\ \E k \in DOMAIN collisions :
          /\ collisions[k].is_sensor
          /\ collisions[k].during_current_frame
          /\ \E i \in 1..Len(pairs) : pairs[i] = k
    /\ constraints = <<>>

(***************************************************************************)
(* C7.  A constraint is appended only if at least one of the two attached  *)
(* bodies is dynamic and at least one is active; a pair in contact whose   *)
(* bodies are both non-dynamic, or both static or sleeping, gets its       *)
(* Contacts record and no constraint.                                      *)
(***************************************************************************)
BothHaveBodies(w) == \A e \in ColliderEntities : BodyOf(w, e) # NoEntity
SomeBodyDynamic(w) ==
    \E e \in ColliderEntities :
        BodyOf(w, e) # NoEntity /\ is_dynamic(w, BodyOf(w, e))
SomeBodyActive(w) ==
    \E e \in ColliderEntities : ActiveBody(w, BodyOf(w, e))

C7_ConstraintNeedsDynamicAndActive ==
    /\ InPairLoop =>
          /\ (constraints # <<>> \/ ~NoLocalConstraints)
                => SomeBodyDynamic(world) /\ SomeBodyActive(world)
          /\ \A i \in 1..Len(pairs) :
                Handled(i).constraints # <<>>
                    => SomeBodyDynamic(world) /\ SomeBodyActive(world)
    /\ (PairLoopDone /\ BothHaveBodies(world)
            /\ (~SomeBodyDynamic(world) \/ ~SomeBodyActive(world))) =>
          /\ constraints = <<>>
          /\ DetectedAreStored

\* A kinematic body touching a static one: one of them is active, none is
\* dynamic; the record is stored and there is no constraint.
C7_Witness ==
    /\ PairLoopDone
    /\ BothHaveBodies(world)
    /\ SomeBodyActive(world) /\ ~SomeBodyDynamic(world)
    /\ DetectedAreStored
    /\ \E i \in 1..Len(pairs) : pairs[i] \in DOMAIN collisions
    /\ constraints = <<>>

(***************************************************************************)
(* C8.  As claimed: whatever the store, the bodies and the candidate list, *)
(* the sequential loop and the parallel loop leave the same store entries  *)
(* with the same fields and the same multiset of constraints.  The loop    *)
(* that ran is compared with what the other loop computes from the same    *)
(* input.                                                                  *)
(***************************************************************************)
C8_SequentialEqualsParallel ==
    PairLoopDone =>
        LET seq == SequentialFrom(collisions0, <<>>, 1)
            par == ParallelFrom(collisions0, collisions0, <<>>, 1)
        IN  /\ collisions = seq.collisions
            /\ collisions = par.collisions
            /\ SeqToBag(constraints) = SeqToBag(seq.constraints)
            /\ SeqToBag(constraints) = SeqToBag(par.constraints)

(***************************************************************************)
(* C9.  In parallel mode, until every task has finished its chunk, the     *)
(* store and the constraint list are as they were when the tasks started   *)
(* and no step changes them or any body's sleeping flag; queued wake       *)
(* commands are still pending on bodies that are still asleep.             *)
(***************************************************************************)
SomeTaskBusy ==
    pc = "par" /\ \E t \in 1..Len(workers) : workers[t].next <= workers[t].last

C9_NoSharedWriteWhileTasksRun ==
    /\ [](pc = "par" =>
            /\ collisions = collisions0
            /\ constraints = <<>>
            /\ \A i \in 1..Len(commands) : world[commands[i]].sleeping)
    /\ [][SomeTaskBusy =>
            /\ collisions' = collisions
            /\ constraints' = constraints
            /\ \A e \in Entities : world'[e].sleeping = world[e].sleeping]_vars

\* One task is done and holds a record and a constraint, another is still
\* busy, a wake command is queued, and the shared list is still empty.
C9_Witness ==
    /\ SomeTaskBusy
    /\ \E t \in 1..Len(workers) :
          /\ workers[t].next > workers[t].last
          /\ workers[t].new_collisions # <<>>
          /\ workers[t].new_constraints # <<>>
    /\ commands # <<>>
    /\ constraints = <<>>

(***************************************************************************)
(* C10.  As claimed: the store never holds an entry keyed (a, b) together  *)
(* with an entry keyed (b, a).                                             *)
(***************************************************************************)
C10_OneKeyPerPair ==
    \A k \in DOMAIN collisions : k[1] # k[2] => <<k[2], k[1]>> \notin DOMAIN collisions

(***************************************************************************)
(* Vocabulary of the calls.                                                *)
(***************************************************************************)
\* The call of fn has returned.
ReturnedFrom(fn) == pc = "return" /\ call.fn = fn

\* The entry the store of the call holds for the pair, under whichever key:
\* <<c>> or <<>>.
PrevOf(c) ==
    IF DOMAIN c.st = {} THEN <<>>
    ELSE <<c.st[CHOOSE k \in DOMAIN c.st : TRUE]>>

\* The points of a sequence of manifolds, as (manifold, point) positions.
PointsOf(manifolds) ==
    UNION {{<<m, p>> : p \in 1..Len(manifolds[m])} : m \in 1..Len(manifolds)}

\* The impulses of the points of the entry that carry feature id f.
PrevImpulsesOf(entry, f) ==
    {entry.manifolds[x[1]][x[2]].normal_impulse :
        x \in {y \in PointsOf(entry.manifolds) :
                    entry.manifolds[y[1]][y[2]].fid = f}}

(***************************************************************************)
(* C11.  With warm starting on, at most 4 new manifolds and a previous     *)
(* entry for the pair under either key order, every new point whose        *)
(* feature id matches a previous point carries the normal impulse of a     *)
(* previous point it matches; with warm starting off every point of the    *)
(* new record has normal impulse zero and the record's total is zero.      *)
(***************************************************************************)
C11_WarmStartCarriesImpulse ==
    (ReturnedFrom("compute_contacts") /\ ret # <<>>) =>
        LET c == ret[1]
            prev == PrevOf(call)
        IN  /\ (call.match /\ Len(c.manifolds) <= MatchManifoldLimit
                    /\ prev # <<>>) =>
                  \A x \in PointsOf(c.manifolds) :
                      LET point == c.manifolds[x[1]][x[2]]
                          hits == PrevImpulsesOf(prev[1], point.fid)
                      IN  hits # {} => point.normal_impulse \in hits
            /\ ~call.match =>
                  /\ \A x \in PointsOf(c.manifolds) :
                        c.manifolds[x[1]][x[2]].normal_impulse = 0
                  /\ c.total_normal_impulse = 0

\* The previous entry is stored under the swapped key; one new point took
\* over a nonzero impulse and another matched nothing and stays at zero.
C11_Witness ==
    /\ ReturnedFrom("compute_contacts") /\ ret # <<>>
    /\ call.match
    /\ <<call.pair[2], call.pair[1]>> \in DOMAIN call.st
    /\ \E x \in PointsOf(ret[1].manifolds) :
          /\ ret[1].manifolds[x[1]][x[2]].normal_impulse > 0
          /\ ret[1].manifolds[x[1]][x[2]].normal_impulse
                \in PrevImpulsesOf(PrevOf(call)[1], ret[1].manifolds[x[1]][x[2]].fid)
    /\ \E x \in PointsOf(ret[1].manifolds) :
          /\ PrevImpulsesOf(PrevOf(call)[1], ret[1].manifolds[x[1]][x[2]].fid) = {}
          /\ ret[1].manifolds[x[1]][x[2]].normal_impulse = 0

(***************************************************************************)
(* Vocabulary of the speculative margin, following the four steps of the   *)
(* margin calculation on the arguments of the call.                        *)
(***************************************************************************)
\* The override of a side: the collider's, else its body's, else none.
SideOverride(w, e) ==
    IF w[e].speculative_margin # NoMargin THEN w[e].speculative_margin
    ELSE IF BodyOf(w, e) # NoEntity THEN w[BodyOf(w, e)].speculative_margin
    ELSE NoMargin

\* The margin of a side: its override, else the scaled default.
SideMargin(c, w, e) ==
    IF SideOverride(w, e) # NoMargin THEN SideOverride(w, e)
    ELSE Scaled(c.length_unit, c.config.default_speculative_margin)

\* The linear velocity of a side: its body's, zero without a body.
SideVelocity(w, e) ==
    IF BodyOf(w, e) # NoEntity THEN w[BodyOf(w, e)].lin_vel ELSE 0

\* The margin of the side is finite.
SideBounded(c, w, e) == SideMargin(c, w, e) < ScalarMax

\* The velocity of a side, clamped to margin / dt when the margin is finite.
ClampedVelocity(c, w, e) ==
    IF SideBounded(c, w, e)
    THEN LET bound == SideMargin(c, w, e) \div c.delta_secs
         IN  Max(0 - bound, Min(SideVelocity(w, e), bound))
    ELSE SideVelocity(w, e)

RelativeSpeed(w) == Abs(SideVelocity(w, 1) - SideVelocity(w, 2))
ClampedRelativeSpeed(c, w) ==
    Abs(ClampedVelocity(c, w, 1) - ClampedVelocity(c, w, 2))

EffectiveMargin(c) == c.delta_secs * ClampedRelativeSpeed(c, c.w)
ScaledTolerance(c) == c.length_unit * c.config.contact_tolerance

\* The world of the call with the two bodies moving at v1 and v3 instead.
WithVelocities(w, v1, v3) ==
    [w EXCEPT ![1].lin_vel = v1, ![3].lin_vel = v3]

\* What the call computes for world w, all else as in the call.
DistanceFor(c, w) ==
    max_contact_distance(w, 1, 2,
        Scaled(c.length_unit, c.config.default_speculative_margin),
        Scaled(c.length_unit, c.config.contact_tolerance),
        c.delta_secs)

(***************************************************************************)
(* C12.  For every combination of margin overrides, default margin,        *)
(* velocities and time step, the max_contact_distance is at least the      *)
(* contact tolerance scaled by the length unit, and equals the maximum of  *)
(* the effective margin and that tolerance.                                *)
(***************************************************************************)
C12_DistanceIsMaxOfMarginAndTolerance ==
    ReturnedFrom("max_contact_distance") =>
        /\ ret >= ScaledTolerance(call)
        /\ ret = Max(EffectiveMargin(call), ScaledTolerance(call))

\* The bodies move relative to each other by less than the scaled
\* tolerance, and the tolerance is what comes out.
C12_Witness ==
    /\ ReturnedFrom("max_contact_distance")
    /\ call.length_unit > 1
    /\ EffectiveMargin(call) > 0
    /\ EffectiveMargin(call) < ScaledTolerance(call)
    /\ ret = ScaledTolerance(call)

(***************************************************************************)
(* C13.  As claimed: for fixed margins, tolerance and time step, whenever  *)
(* the relative speed |v1 - v2| is at most |v1' - v2'|, the distance for   *)
(* (v1, v2) is at most the distance for (v1', v2'), also when a side has a *)
(* finite margin that clamps its velocity.                                 *)
(***************************************************************************)
C13_MonotoneInRelativeSpeed ==
    ReturnedFrom("max_contact_distance") =>
        \A v1 \in Velocities, v3 \in Velocities :
            RelativeSpeed(call.w) <= RelativeSpeed(WithVelocities(call.w, v1, v3))
                => ret <= DistanceFor(call, WithVelocities(call.w, v1, v3))

(***************************************************************************)
(* C13, amended: the distance is monotonically non-decreasing in the       *)
(* relative speed of the velocities after each side's clamp, and in the    *)
(* relative speed itself when the margins of both sides are unbounded.     *)
(***************************************************************************)
C13_MonotoneInClampedRelativeSpeed ==
    ReturnedFrom("max_contact_distance") =>
        \A v1 \in Velocities, v3 \in Velocities :
            LET w == WithVelocities(call.w, v1, v3)
            IN  /\ ClampedRelativeSpeed(call, call.w) <= ClampedRelativeSpeed(call, w)
                    => ret <= DistanceFor(call, w)
                /\ (~SideBounded(call, call.w, 1) /\ ~SideBounded(call, call.w, 2)
                        /\ RelativeSpeed(call.w) <= RelativeSpeed(w))
                    => ret <= DistanceFor(call, w)

\* A side is clamped by a finite margin, the distance is above the
\* tolerance, and a larger clamped relative speed gives a larger distance.
C13_Witness ==
    /\ ReturnedFrom("max_contact_distance")
    /\ \E e \in ColliderEntities :
          /\ SideBounded(call, call.w, e)
          /\ ClampedVelocity(call, call.w, e) # SideVelocity(call.w, e)
    /\ ret > ScaledTolerance(call)
    /\ \E v1 \in Velocities, v3 \in Velocities :
          LET w == WithVelocities(call.w, v1, v3)
          IN  /\ ClampedRelativeSpeed(call, call.w) < ClampedRelativeSpeed(call, w)
              /\ ret < DistanceFor(call, w)

(***************************************************************************)
(* C14.  When an entity of a pair no longer exists as a step begins, then  *)
(* in that step the reset pass leaves the pair's entry with                *)
(* during_current_frame = FALSE, handle_pair returns nothing for the pair  *)
(* (no record, no constraint, no command), the collect pass inserts        *)
(* nothing for it, and after the prune pass no entry of the store refers   *)
(* to the missing entity.                                                  *)
(***************************************************************************)
EntityMissing(w, k) == ~BothEntitiesExist(w, k)

\* Constraint c is for a pair with a missing entity.
ConstraintOfMissing(w, c) == EntityMissing(w, <<c.entity1, c.entity2>>)

C14_MissingEntitySkippedAndPruned ==
    /\ AfterReset =>
          \A k \in DOMAIN collisions :
              EntityMissing(world, k) => ~collisions[k].during_current_frame
    /\ InPairLoop =>
          \A i \in 1..Len(pairs) :
              EntityMissing(world, pairs[i]) =>
                  /\ Handled(i).contacts = <<>>
                  /\ Handled(i).constraints = <<>>
                  /\ Handled(i).commands = <<>>
    /\ (InPairLoop \/ AfterCollect) =>
          /\ \A i \in 1..Len(constraints) :
                ~ConstraintOfMissing(world, constraints[i])
          /\ \A t \in 1..Len(workers) :
                /\ \A i \in 1..Len(workers[t].new_constraints) :
                      ~ConstraintOfMissing(world, workers[t].new_constraints[i])
                /\ \A i \in 1..Len(workers[t].new_collisions) :
                      BothEntitiesExist(world,
                          <<workers[t].new_collisions[i].entity1,
                            workers[t].new_collisions[i].entity2>>)
    /\ pc = "step" =>
          \A k \in DOMAIN collisions : BothEntitiesExist(world, k)

\* Entity 2 is gone; the pair was a candidate of the step, its entry was in
\* the store up to the prune pass, and the prune pass removed it.
C14_Witness ==
    /\ pc = "step"
    /\ ~world[2].alive
    /\ \E k \in DOMAIN collisions0 :
          /\ EntityMissing(world, k)
          /\ \E i \in 1..Len(pairs) : pairs[i] = k
          /\ k \notin DOMAIN collisions

(***************************************************************************)
(* C15.  After each update call the constraint list holds exactly the      *)
(* constraints that handle_pair generated for the pairs of that call, in   *)
(* the order of the loop that ran; nothing of an earlier step is left, and *)
(* with an empty candidate list the constraint list is empty.              *)
(***************************************************************************)
\* The constraints the loop of this call generates from the store and the
\* bodies as the call found them.
ConstraintsOfThisCall ==
    IF parallel THEN ParallelFrom(collisions0, collisions0, <<>>, 1).constraints
    ELSE SequentialFrom(collisions0, <<>>, 1).constraints

C15_ConstraintsRebuiltEveryCall ==
    /\ PairLoopDone => constraints = ConstraintsOfThisCall
    /\ (AfterCollect \/ PairLoopDone) =>
          /\ pairs = <<>> => constraints = <<>>
          /\ \A i \in 1..Len(constraints) :
                /\ \E j \in 1..Len(pairs) :
                      pairs[j] = <<constraints[i].entity1, constraints[i].entity2>>
                /\ Detects(constraints[i].entity1, constraints[i].entity2)

\* The step before left constraints (the solver stored an impulse through
\* one of them); this call had no candidate and the list is empty.
C15_Witness ==
    /\ pc = "post"
    /\ pairs = <<>>
    /\ constraints = <<>>
    /\ \E k \in DOMAIN collisions :
        \E x \in PointsOf(collisions[k].manifolds) :
            collisions[k].manifolds[x[1]][x[2]].normal_impulse > 0

(***************************************************************************)
(* C16.  Every Contacts record the collect pass produces has               *)
(* during_current_frame = TRUE, and its during_previous_frame is that of   *)
(* the pair's entry in the store, under either key order, when there is    *)
(* one, and FALSE otherwise.  So a pair first detected in a step is stored *)
(* as (TRUE, FALSE) and a pair detected again after a reset pass as        *)
(* (TRUE, TRUE).                                                           *)
(***************************************************************************)
\* The keys of store st for the unordered pair of k.
KeysOf(st, k) == {k, <<k[2], k[1]>>} \cap DOMAIN st

\* Record c carries the during_previous_frame of the entries of st for its
\* pair, FALSE if there is none.
CopiesPreviousFrame(c, st) ==
    LET keys == KeysOf(st, <<c.entity1, c.entity2>>)
    IN  IF keys = {} THEN ~c.during_previous_frame
        ELSE \A k \in keys :
                c.during_previous_frame = st[k].during_previous_frame

C16_RecordFrameFlags ==
    /\ InPairLoop =>
          \A i \in 1..Len(pairs) :
              Handled(i).contacts # <<>> =>
                  /\ Handled(i).contacts[1].during_current_frame
                  /\ CopiesPreviousFrame(Handled(i).contacts[1], collisions)
    /\ \A t \in 1..Len(workers) :
          \A i \in 1..Len(workers[t].new_collisions) :
              /\ workers[t].new_collisions[i].during_current_frame
              /\ CopiesPreviousFrame(workers[t].new_collisions[i], collisions0)
    /\ pc = "post" =>
          \A i \in 1..Len(pairs) :
              Detects(pairs[i][1], pairs[i][2]) =>
                  /\ pairs[i] \in DOMAIN collisions
                  /\ collisions[pairs[i]].during_current_frame
                  /\ collisions[pairs[i]].during_previous_frame
                        = (KeysOf(collisions0, pairs[i]) # {})

\* The pair was stored as (1, 2) and is detected again as (2, 1): the new
\* record is stored as (TRUE, TRUE); the old one was not found again.
C16_Witness ==
    /\ pc = "post"
    /\ pairs = << <<2, 1>> >>
    /\ DOMAIN collisions0 = {<<1, 2>>}
    /\ <<2, 1>> \in DOMAIN collisions
    /\ collisions[<<2, 1>>].during_current_frame
    /\ collisions[<<2, 1>>].during_previous_frame
    /\ ~collisions[<<1, 2>>].during_current_frame

(***************************************************************************)
(* C17.  As claimed: right after the reset pass an entry whose two         *)
(* entities exist has during_current_frame = TRUE when both rigid bodies   *)
(* it refers to are static or sleeping, and FALSE when one of them is      *)
(* neither static nor sleeping, also when a collider is a separate entity  *)
(* from its rigid body.                                                    *)
(***************************************************************************)
\* The reset pass has just run.
JustReset == pc = "collect"

C17_ResetByBodyActivity ==
    JustReset =>
        \A k \in DOMAIN collisions :
            BothEntitiesExist(world, k) =>
                /\ BothBodiesInactive(world, k)
                        => collisions[k].during_current_frame
                /\ PairHasActiveBody(world, k)
                        => ~collisions[k].during_current_frame

(***************************************************************************)
(* C18.  Within every step the passes run in the order reset, collect,     *)
(* post-process, prune: the pair loop runs on a store the reset pass has   *)
(* gone over, the post-process pass runs when every pair is collected and  *)
(* the deferred commands are applied, and entries are removed by the prune *)
(* pass only, at the end of the step.                                      *)
(***************************************************************************)
\* The positions of the schedule that follow one another.
PassOrder ==
    {<<"reset", "collect">>, <<"collect", "seq">>, <<"collect", "par">>,
     <<"par", "merged">>, <<"seq", "post">>, <<"merged", "post">>,
     <<"post", "solve">>, <<"solve", "prune">>, <<"prune", "step">>,
     <<"step", "reset">>}

\* Entry c is as the reset pass leaves it.
IsReset(w, c) ==
    /\ c.total_normal_impulse = 0
    /\ BothEntitiesExist(w, <<c.entity1, c.entity2>>) => c.during_previous_frame

C18_PassesRunInOrder ==
    /\ [](pc \in {"seq", "par"} =>
            \A k \in DOMAIN collisions0 : IsReset(world, collisions0[k]))
    /\ [](pc = "post" =>
            DetectedAreStored /\ workers = <<>> /\ commands = <<>>)
    /\ [][/\ pc' # pc => <<pc, pc'>> \in PassOrder
          /\ ~(DOMAIN collisions \subseteq DOMAIN collisions')
                => pc = "prune" /\ pc' = "step"]_vars

\* At the prune pass, after the solver: an entry that ended in this step is
\* still in the store next to one that was found, with its constraints.
C18_Witness ==
    /\ pc = "prune"
    /\ constraints # <<>>
    /\ \E k \in DOMAIN collisions :
          ~collisions[k].during_current_frame /\ collisions[k].during_previous_frame
    /\ \E k \in DOMAIN collisions :
          /\ collisions[k].during_current_frame
          /\ \E x \in PointsOf(collisions[k].manifolds) :
                collisions[k].manifolds[x[1]][x[2]].normal_impulse > 0

(***************************************************************************)
(* C19.  As claimed: when contact matching runs, the total normal impulse  *)
(* of the new record is the sum of the impulses carried by the points of   *)
(* its manifolds, each point counted once, whatever the number of          *)
(* manifolds of the previous entry.                                        *)
(***************************************************************************)
RECURSIVE SumOfManifolds(_)
SumOfManifolds(manifolds) ==
    IF manifolds = <<>> THEN 0
    ELSE SumImpulses(Head(manifolds)) + SumOfManifolds(Tail(manifolds))

\* The call ran the contact matching.
MatchingRan ==
    /\ ReturnedFrom("compute_contacts") /\ ret # <<>>
    /\ call.match
    /\ Len(ret[1].manifolds) <= MatchManifoldLimit
    /\ PrevOf(call) # <<>>

C19_TotalCountsEachPointOnce ==
    MatchingRan =>
        ret[1].total_normal_impulse = SumOfManifolds(ret[1].manifolds)

(***************************************************************************)
(* C20.  A wake command is queued for a body exactly when handle_pair      *)
(* reaches generate_constraints for a pair in contact, the pair is not     *)
(* skipped (not both bodies static or sleeping, no sensor on either side)  *)
(* and the body is the sleeping body of the pair.  A pair queues at most   *)
(* one wake command; its target is asleep and the other body of the pair   *)
(* is active.                                                              *)
(***************************************************************************)
\* The other collider of the pair k than e.
OtherOf(k, e) == IF k[1] = e THEN k[2] ELSE k[1]

\* generate_constraints is called for pair k and does not return early.
NotSkipped(w, k) ==
    /\ Detects(k[1], k[2])
    /\ BodyOf(w, k[1]) # NoEntity /\ BodyOf(w, k[2]) # NoEntity
    /\ \E e \in {k[1], k[2]} : is_dynamic(w, BodyOf(w, e))
    /\ ~BothBodiesInactive(w, k)
    /\ \A e \in {k[1], k[2]} : ~w[e].sensor /\ ~w[BodyOf(w, e)].sensor

\* The wake commands handle_pair queues for candidate i are right.
WakesOf(i) ==
    LET k == pairs[i]
        cmds == Handled(i).commands
    IN  /\ Len(cmds) <= 1
        /\ \A n \in 1..Len(cmds) :
              /\ NotSkipped(world, k)
              /\ world[cmds[n]].sleeping
              /\ \E e \in {k[1], k[2]} :
                    /\ cmds[n] = BodyOf(world, e)
                    /\ ActiveBody(world, BodyOf(world, OtherOf(k, e)))
        /\ \A e \in {k[1], k[2]} :
              (NotSkipped(world, k) /\ world[BodyOf(world, e)].sleeping)
                  => cmds = <<BodyOf(world, e)>>

C20_WakeOnlyTheSleepingBody ==
    InPairLoop =>
        /\ \A i \in 1..Len(pairs) : WakesOf(i)
        /\ \A n \in 1..Len(commands) : world[commands[n]].sleeping
        /\ (SensorOrBodiless(world) \/ ~SomeBodyActive(world)) => commands = <<>>

\* Collider 2 is a child of the sleeping body 3 and touches the awake body
\* 1: one wake command, for body 3, is queued along with the constraint.
C20_Witness ==
    /\ PairLoopDone
    /\ pairs # <<>>
    /\ world[2].alive /\ world[2].parent = 3 /\ world[3].sleeping
    /\ ActiveBody(world, BodyOf(world, 1))
    /\ \A n \in 1..Len(commands) : commands[n] = 3
    /\ Len(commands) = Len(pairs)
    /\ constraints # <<>>

(***************************************************************************)
(* C21.  When the backend returns more than 4 manifolds, compute_contacts  *)
(* matches nothing, warm starting on or off, previous entry or not: the    *)
(* record holds the manifolds as the backend returned them, every point    *)
(* has normal impulse zero and the total is zero, while                    *)
(* during_previous_frame is that of the previous entry (FALSE without      *)
(* one).                                                                   *)
(***************************************************************************)
\* The call returned a record of more manifolds than are matched.
ReturnedDense ==
    /\ ReturnedFrom("compute_contacts") /\ ret # <<>>
    /\ Len(call.g.shape) > MatchManifoldLimit

C21_DenseManifoldsNotMatched ==
    ReturnedDense =>
        LET c == ret[1]
            prev == PrevOf(call)
        IN  /\ c.manifolds = call.g.shape
            /\ \A x \in PointsOf(c.manifolds) :
                  c.manifolds[x[1]][x[2]].normal_impulse = 0
            /\ c.total_normal_impulse = 0
            /\ c.during_current_frame
            /\ c.during_previous_frame =
                  (prev # <<>> /\ prev[1].during_previous_frame)

\* Warm starting is on and the previous entry, in contact in the previous
\* frame, has a point of the same feature id with a nonzero impulse: the
\* five new manifolds stay at zero and during_previous_frame is copied.
C21_Witness ==
    /\ ReturnedDense
    /\ call.match
    /\ PrevOf(call) # <<>>
    /\ PrevOf(call)[1].during_previous_frame
    /\ \E f \in {call.g.shape[1][1].fid} :
          \E v \in PrevImpulsesOf(PrevOf(call)[1], f) : v > 0
    /\ ret[1].during_previous_frame
    /\ ret[1].total_normal_impulse = 0

(***************************************************************************)
(* C22.  As claimed: once the during_previous_frame of a stored entry is   *)
(* TRUE it is TRUE after every step that keeps the entry (reset,           *)
(* replacement by the collect pass in either mode, the solver), and every  *)
(* reset pass leaves every stored entry with during_previous_frame = TRUE. *)
(***************************************************************************)
\* No step takes during_previous_frame of an entry from TRUE to FALSE.
PreviousFrameStaysTrue ==
    \A k \in DOMAIN collisions \cap DOMAIN collisions' :
        collisions[k].during_previous_frame
            => collisions'[k].during_previous_frame

\* The step is a reset pass.
ResetPassRuns == pc = "reset" /\ pc' = "collect"

\* The reset pass leaves during_previous_frame = TRUE on every entry.
ResetSetsPreviousFrame ==
    ResetPassRuns =>
        \A k \in DOMAIN collisions' : collisions'[k].during_previous_frame

C22_PreviousFrameMonotone ==
    [][PreviousFrameStaysTrue /\ ResetSetsPreviousFrame]_vars

\* The first half of C22 alone, which the code keeps.
C22_StaysTrueUntilPruned == [][PreviousFrameStaysTrue]_vars

(***************************************************************************)
(* C23.  As claimed: every entry the prune pass removes has                *)
(* during_previous_frame = TRUE and during_current_frame = FALSE at the    *)
(* moment it is removed, entries created in the step before whose entity   *)
(* was then removed included.                                              *)
(***************************************************************************)
\* The keys the prune pass of this step removed.
Pruned == DOMAIN collisions0 \ DOMAIN collisions

C23_RemovedEntriesWereInPreviousFrame ==
    pc = "step" =>
        \A k \in Pruned :
            /\ collisions0[k].during_previous_frame
            /\ ~collisions0[k].during_current_frame

(***************************************************************************)
(* C24.  As claimed: with two narrow phase instances registered, once both *)
(* collect passes of a step have run, in whichever order, the constraint   *)
(* list holds the constraints of both passes, and by the end of the step   *)
(* the reset pass, the prune pass and each collect pass have run exactly   *)
(* once.                                                                   *)
(***************************************************************************)
\* The collect pass of the instance for collider type C has run.
CollectRan(C) ==
    \E i \in 1..Len(Schedule) :
        HasRun(i) /\ Schedule[i] = System("collect_collisions", C)

\* Both collect passes have run and their deferred commands are pending.
BothCollected ==
    /\ pc = "schedule"
    /\ \A C \in ColliderTypes : CollectRan(C)
    /\ \A i \in 1..Len(Schedule) :
          HasRun(i) => Stage(Schedule[i].fn) <= Stage("collect_collisions")

\* The constraints the collect pass for C generates in this step.
GeneratedBy(C) ==
    update(collider_query(world, C), geom, pairs, collisions0, <<>>,
           Scaled(length_unit, config.default_speculative_margin),
           Scaled(length_unit, config.contact_tolerance),
           warm_start).constraints

\* How many systems named fn have run in this step.
TimesRun(fn) == Cardinality({n \in 1..Len(ran) : Schedule[ran[n]].fn = fn})

StepDone == pc = "schedule" /\ \A i \in 1..Len(Schedule) : HasRun(i)

\* Every pass has run as often as the claim says.
PassesRunOnce ==
    StepDone =>
        /\ TimesRun("reset_collision_states") = 1
        /\ TimesRun("remove_ended_collisions") = 1
        /\ TimesRun("collect_collisions") = Cardinality(ColliderTypes)

C24_BothPassesKeepConstraints ==
    /\ BothCollected =>
          SeqToBag(constraints) =
              SeqToBag(GeneratedBy("A")) (+) SeqToBag(GeneratedBy("B"))
    /\ PassesRunOnce

(***************************************************************************)
(* C25.  As claimed: in every update call, whatever changes were made to   *)
(* the configuration and to the length unit between steps, the contact     *)
(* tolerance and the default speculative margin the pair loop uses are the *)
(* configured values scaled by the length unit as it is now.               *)
(***************************************************************************)
C25_UsedValuesAreScaledConfig ==
    InPairLoop =>
        /\ contact_tolerance = Scaled(length_unit, config.contact_tolerance)
        /\ default_speculative_margin =
              Scaled(length_unit, config.default_speculative_margin)

====
